---- MODULE Spec2Model ----
(***************************************************************************)
(* Model of recursive_crosswordle_backtracker.py: the ternary codec, the   *)
(* Wordle colouring, the feedback table, the row extension filter and the  *)
(* recursive backtracker.                                                  *)
(*                                                                         *)
(* Letters are modelled as small integers (1 = a, 2 = b, 3 = c, ...), a    *)
(* word as a sequence of WordLen letters, a Python list as a sequence with *)
(* 1-based indices (Python index k is TLA+ index k+1), a dict as a         *)
(* function whose DOMAIN is the set of keys.  print statements and the     *)
(* percent counter of the backtracker produce output only and are left out.*)
(***************************************************************************)
EXTENDS Integers, Sequences, FiniteSets, TLC

VARIABLES
    pc,         \* position of the run
    words,      \* get_table's first argument (the lexicon)
    ext_words,  \* get_table's second argument (the extended lexicon)
    table,      \* the hash table: <<sol, coln>> -> list of guesses
    options,    \* solve_function's options argument
    nums,       \* solve_function's nums argument
    frames,     \* the call stack of recursive_backtracker
    ret,        \* the value solve_function returned
    last_ext,   \* the last extend_puzzle call: arguments before and after, result
    guess,      \* wordle_colour's guess argument
    solution,   \* wordle_colour's solution argument
    col,        \* the colouring wordle_colour returned
    codec_in,   \* the value handed to the codec
    codec_mid,  \* the value after the first conversion
    codec_out   \* the value after converting back

vars == <<pc, words, ext_words, table, options, nums, frames, ret, last_ext,
          guess, solution, col, codec_in, codec_mid, codec_out>>

solverVars == <<words, ext_words, table, options, nums, frames, ret, last_ext>>
colourVars == <<guess, solution, col>>
codecVars == <<codec_in, codec_mid, codec_out>>

----------------------------------------------------------------------------
(* Program constants *)

WordLen == 5
GREY == 0
YELLOW == 1
GREEN == 2

(* Bounds of the model *)

\* letters of the alphabet wordle_colour is run over
NumLetters == 3
\* words in the extended lexicon
MaxExt == 3
\* words of the pool that are common (lexicon) words
MaxLex == 2
\* rows of a puzzle
MaxRows == 3

----------------------------------------------------------------------------
(* Python list helpers *)

Range(s) == {s[i] : i \in DOMAIN s}

\* s[::-1]
Reverse(s) == [i \in 1..Len(s) |-> s[Len(s) + 1 - i]]

\* list.remove(x): drops the first occurrence of x (x is known to be present)
list_remove(s, x) ==
    LET first == CHOOSE i \in 1..Len(s) :
                    s[i] = x /\ \A j \in 1..(i - 1) : s[j] # x
    IN  [i \in 1..(Len(s) - 1) |-> IF i < first THEN s[i] ELSE s[i + 1]]

RECURSIVE Pow(_, _)
Pow(b, e) == IF e = 0 THEN 1 ELSE b * Pow(b, e - 1)

\* the colourings of a word are the numbers 0 .. 3^5 - 1
NumColourings == Pow(3, WordLen)

----------------------------------------------------------------------------
(* The ternary codec *)

\* for power, n in enumerate(t[::-1]): num += n*(3**power)
RECURSIVE ternarytonum_loop(_, _, _)
ternarytonum_loop(rev, power, num) ==
    IF power >= Len(rev) THEN num
    ELSE ternarytonum_loop(rev, power + 1, num + rev[power + 1] * Pow(3, power))

ternarytonum(t) == ternarytonum_loop(Reverse(t), 0, 0)

\* while x > 0: x, r = divmod(x, 3); nums.append(r)
RECURSIVE numtoternary_digits(_, _)
numtoternary_digits(x, ns) ==
    IF x > 0 THEN numtoternary_digits(x \div 3, Append(ns, x % 3)) ELSE ns

\* while len(nums) < 5: nums.append(0)
RECURSIVE numtoternary_pad(_)
numtoternary_pad(ns) ==
    IF Len(ns) < WordLen THEN numtoternary_pad(Append(ns, 0)) ELSE ns

numtoternary_unpadded(x) == Reverse(numtoternary_digits(x, <<>>))

numtoternary(x) == Reverse(numtoternary_pad(numtoternary_digits(x, <<>>)))

----------------------------------------------------------------------------
(* wordle_colour *)

\* first loop body: mark an exact match green, else remember the solution letter
pass1_step(st, g, s, pos) ==
    IF g[pos] = s[pos]
    THEN [col |-> [st.col EXCEPT ![pos] = GREEN], observed |-> st.observed]
    ELSE [col |-> st.col, observed |-> Append(st.observed, s[pos])]

RECURSIVE pass1(_, _, _, _)
pass1(st, g, s, pos) ==
    IF pos > Len(s) THEN st ELSE pass1(pass1_step(st, g, s, pos), g, s, pos + 1)

\* second loop body that forgets to consume the observed letter
pass2_step_noremove(st, g, s, pos) ==
    IF g[pos] \in Range(st.observed) /\ st.col[pos] # GREEN
    THEN [col |-> IF s[pos] # g[pos] THEN [st.col EXCEPT ![pos] = YELLOW] ELSE st.col,
          observed |-> st.observed]
    ELSE st

\* second loop body: a non-green letter still observed is consumed and made yellow
pass2_step(st, g, s, pos) ==
    IF g[pos] \in Range(st.observed) /\ st.col[pos] # GREEN
    THEN [col |-> IF s[pos] # g[pos] THEN [st.col EXCEPT ![pos] = YELLOW] ELSE st.col,
          observed |-> list_remove(st.observed, g[pos])]
    ELSE st

RECURSIVE pass2(_, _, _, _)
pass2(st, g, s, pos) ==
    IF pos > Len(g) THEN st ELSE pass2(pass2_step(st, g, s, pos), g, s, pos + 1)

wordle_colour(g, s) ==
    LET init == [col |-> <<GREY, GREY, GREY, GREY, GREY>>, observed |-> <<>>]
    IN  pass2(pass1(init, g, s, 1), g, s, 1).col

----------------------------------------------------------------------------
(* get_table *)

EmptyTable == [k \in {} |-> <<>>]

\* a store that replaces the bucket instead of appending to it
table_store_overwrite(t, sol, coln, g) ==
    IF <<sol, coln>> \in DOMAIN t
    THEN [t EXCEPT ![<<sol, coln>>] = <<g>>]
    ELSE (<<sol, coln>> :> <<g>>) @@ t

\* if (sol, coln) in table.keys(): table[(sol, coln)].append(guess)
\* else: table[(sol, coln)] = [guess]
table_store(t, sol, coln, g) ==
    IF <<sol, coln>> \in DOMAIN t
    THEN [t EXCEPT ![<<sol, coln>>] = Append(@, g)]
    ELSE (<<sol, coln>> :> <<g>>) @@ t

\* for guess in ext_words: if sol != guess: ...
RECURSIVE get_table_inner(_, _, _, _)
get_table_inner(t, sol, ext, j) ==
    IF j > Len(ext) THEN t
    ELSE get_table_inner(
            IF sol # ext[j]
            THEN table_store(t, sol, ternarytonum(wordle_colour(ext[j], sol)), ext[j])
            ELSE t,
            sol, ext, j + 1)

\* for i, sol in enumerate(ext_words): ...
RECURSIVE get_table_outer(_, _, _)
get_table_outer(t, ext, i) ==
    IF i > Len(ext) THEN t
    ELSE get_table_outer(get_table_inner(t, ext[i], ext, 1), ext, i + 1)

\* the first parameter is never read: solutions and guesses both come from ext
get_table(ws, ext) == get_table_outer(EmptyTable, ext, 1)

----------------------------------------------------------------------------
(* Puzzle extension *)

\* for word in words: if word[index] == letter: return True
aligned(letter, index, ws) == \E k \in 1..Len(ws) : ws[k][index] = letter

\* containment by membership only, ignoring how often a letter occurs
is_sublist_membership(sub, full) ==
    [ok |-> \A k \in 1..Len(sub) : sub[k] \in Range(full), full |-> full]

\* for e in sub: if e in full: full.remove(e) else: return False
\* full is changed in place; its final content is returned with the answer
RECURSIVE is_sublist_loop(_, _, _)
is_sublist_loop(sub, full, k) ==
    IF k > Len(sub) THEN [ok |-> TRUE, full |-> full]
    ELSE IF sub[k] \in Range(full)
         THEN is_sublist_loop(sub, list_remove(full, sub[k]), k + 1)
         ELSE [ok |-> FALSE, full |-> full]

is_sublist(sub, full) == is_sublist_loop(sub, full, 1)

RECURSIVE get_nongreys_loop(_, _, _, _)
get_nongreys_loop(word, c, index, nongreys) ==
    IF index > Len(word) THEN nongreys
    ELSE get_nongreys_loop(word, c, index + 1,
            IF c[index] # GREY THEN Append(nongreys, word[index]) ELSE nongreys)

\* builds a new list on every call
get_nongreys(word, coln) == get_nongreys_loop(word, numtoternary(coln), 1, <<>>)

\* inner loop of get_greys over the letters of one word
RECURSIVE get_greys_word(_, _, _, _)
get_greys_word(greys, word, coln, index) ==
    IF index > Len(word) THEN greys
    ELSE get_greys_word(
            IF numtoternary(coln)[index] = GREY /\ word[index] \notin Range(greys)
            THEN Append(greys, word[index])
            ELSE greys,
            word, coln, index + 1)

\* for word, coln in zip(words, nums): zip stops at the shorter list
RECURSIVE get_greys_loop(_, _, _, _)
get_greys_loop(greys, ws, ns, k) ==
    IF k > Len(ws) \/ k > Len(ns) THEN greys
    ELSE get_greys_loop(get_greys_word(greys, ws[k], ns[k], 1), ws, ns, k + 1)

get_greys(ws, ns) == get_greys_loop(<<>>, ws, ns, 1)

\* the loop of is_good_word over the tiles: "reject" on the first broken rule,
\* else the non-grey letters collected
RECURSIVE is_good_word_loop(_, _, _, _, _, _)
is_good_word_loop(word, c, greys, ws, index, nongreys) ==
    IF index > Len(word) THEN [reject |-> FALSE, nongreys |-> nongreys]
    ELSE IF c[index] = GREY
         THEN IF word[index] \in Range(greys)
              THEN [reject |-> TRUE, nongreys |-> nongreys]
              ELSE IF aligned(word[index], index, ws)
                   THEN [reject |-> TRUE, nongreys |-> nongreys]
                   ELSE is_good_word_loop(word, c, greys, ws, index + 1, nongreys)
         ELSE IF c[index] = YELLOW /\ aligned(word[index], index, ws)
              THEN [reject |-> TRUE, nongreys |-> Append(nongreys, word[index])]
              ELSE is_good_word_loop(word, c, greys, ws, index + 1,
                                     Append(nongreys, word[index]))

\* a check that never looks at the greys of earlier rows
is_good_word_nogreys(word, c, greys, ws, prevword, prevcoln) ==
    LET r == is_good_word_loop(word, c, <<>>, ws, 1, <<>>)
    IN  IF r.reject THEN FALSE
        ELSE is_sublist(r.nongreys, get_nongreys(prevword, prevcoln)).ok

\* the list is_sublist empties is the fresh one get_nongreys returned, so the
\* removal is not visible outside is_good_word
is_good_word(word, c, greys, ws, prevword, prevcoln) ==
    LET r == is_good_word_loop(word, c, greys, ws, 1, <<>>)
    IN  IF r.reject THEN FALSE
        ELSE is_sublist(r.nongreys, get_nongreys(prevword, prevcoln)).ok

\* for word in fwords: if is_good_word(...): filtered.append(word)
RECURSIVE filter_loop(_, _, _, _, _, _, _)
filter_loop(fwords, k, filtered, c, greys, ws, prevcoln) ==
    IF k > Len(fwords) THEN filtered
    ELSE filter_loop(fwords, k + 1,
            IF is_good_word(fwords[k], c, greys, ws, ws[Len(ws)], prevcoln)
            THEN Append(filtered, fwords[k])
            ELSE filtered,
            c, greys, ws, prevcoln)

\* a filter that looks the colouring up under the row directly below
filter_colour_prevrow(coln, greys, ws, ns, t) ==
    LET sol == ws[Len(ws)]
        prevcoln == ns[Len(ws)]
    IN  IF <<sol, coln>> \in DOMAIN t
        THEN [filtered |-> filter_loop(t[<<sol, coln>>], 1, <<>>, numtoternary(coln),
                                       greys, ws, prevcoln),
              table |-> t]
        ELSE [filtered |-> <<>>, table |-> t]

\* a filter that prunes the bucket itself instead of building a new list
filter_colour_inplace(coln, greys, ws, ns, t) ==
    LET sol == ws[1]
        prevcoln == ns[Len(ws)]
    IN  IF <<sol, coln>> \in DOMAIN t
        THEN LET filtered == filter_loop(t[<<sol, coln>>], 1, <<>>, numtoternary(coln),
                                         greys, ws, prevcoln)
             IN  [filtered |-> filtered,
                  table |-> [t EXCEPT ![<<sol, coln>>] = filtered]]
        ELSE [filtered |-> <<>>, table |-> t]

\* fwords is the bucket object of the table; it is only read, so the table
\* after the call is the table before it
filter_colour(coln, greys, ws, ns, t) ==
    LET sol == ws[1]
        prevcoln == ns[Len(ws)]
    IN  IF <<sol, coln>> \in DOMAIN t
        THEN [filtered |-> filter_loop(t[<<sol, coln>>], 1, <<>>, numtoternary(coln),
                                       greys, ws, prevcoln),
              table |-> t]
        ELSE [filtered |-> <<>>, table |-> t]

\* the result and the arguments as the call leaves them
extend_puzzle(prevwords, ns, t) ==
    LET coln == ns[Len(prevwords) + 1]
        greys == get_greys(prevwords, ns)
        f == filter_colour(coln, greys, prevwords, ns, t)
    IN  [extwords |-> f.filtered, prevwords |-> prevwords, nums |-> ns,
         table |-> f.table]

----------------------------------------------------------------------------
(* recursive_backtracker *)

\* Python's None, and a returned list of stacks
None == [none |-> TRUE, sols |-> <<>>]
Some(sols) == [none |-> FALSE, sols |-> sols]

\* an accepting call that keeps only the first option
accept_solutions_first(selected, opts) == <<Append(selected, opts[1])>>

\* for option in options: solutions.append(selected + [option])
accept_solutions(selected, opts) ==
    [k \in 1..Len(opts) |-> Append(selected, opts[k])]

Top == frames[Len(frames)]

\* if len(selected) == (len(nums)-1) and len(options) > 0
Accepting(f) == Len(f.selected) = Len(nums) - 1 /\ Len(f.options) > 0

\* the callee returned res: the caller runs "if res != None: solutions += res"
\* and moves to the next option; the outermost return is solve_function's
Return(res) ==
    IF Len(frames) = 1
    THEN /\ frames' = <<>>
         /\ ret' = res
         /\ pc' = "done"
    ELSE LET caller == frames[Len(frames) - 1]
             merged == IF res.none THEN caller.solutions
                       ELSE caller.solutions \o res.sols
         IN  /\ frames' = SubSeq(frames, 1, Len(frames) - 2)
                          \o <<[caller EXCEPT !.solutions = merged, !.i = @ + 1]>>
             /\ ret' = ret
             /\ pc' = pc

----------------------------------------------------------------------------
(* Inputs *)

\* the word pool: cabab, ccbbb, cbbcb, cdbdb
Dict == << <<3, 1, 2, 1, 2>>, <<3, 3, 2, 2, 2>>, <<3, 2, 2, 3, 2>>, <<3, 4, 2, 4, 2>> >>

\* all green; green yellow green yellow green; green grey green grey green
Colourings == {242, 212, 182}

Min(a, b) == IF a < b THEN a ELSE b

SeqsUpTo(S, n) == UNION {[1..k -> S] : k \in 1..n}

NoRepeats(s) == \A i, j \in 1..Len(s) : s[i] = s[j] => i = j

\* extendedwordles.txt: up to MaxExt different words of the pool, in any order
ExtLexicons == {s \in SeqsUpTo(Range(Dict), MaxExt) : NoRepeats(s)}

\* wordles.txt: the common words among the extended ones, in their order
CommonWords == {Dict[k] : k \in 1..Min(MaxLex, Len(Dict))}
IsCommon(w) == w \in CommonWords
Lexicon(ext) == SelectSeq(ext, IsCommon)
Puzzles == SeqsUpTo(Colourings, MaxRows)

Letters == 1..NumLetters
Words == [1..WordLen -> Letters]
Ternaries == [1..WordLen -> {GREY, YELLOW, GREEN}]

NoCall == [called |-> FALSE]

----------------------------------------------------------------------------
(* The solver run: build the table, call solve_function, backtrack *)

Init ==
    /\ pc = "start"
    /\ ext_words \in ExtLexicons
    /\ words = Lexicon(ext_words)
    /\ table = EmptyTable
    /\ options = <<>>
    /\ nums = <<>>
    /\ frames = <<>>
    /\ ret = None
    /\ last_ext = NoCall
    /\ guess = <<>> /\ solution = <<>> /\ col = <<>>
    /\ codec_in = <<>> /\ codec_mid = <<>> /\ codec_out = <<>>

\* table = get_table(WORDLES, EXTENDED_WORDLE)
GetTable ==
    /\ pc = "start"
    /\ table' = get_table(words, ext_words)
    /\ pc' = "ready"
    /\ UNCHANGED <<words, ext_words, options, nums, frames, ret, last_ext>>
    /\ UNCHANGED <<colourVars, codecVars>>

\* solve_function(options, nums, table): recursive_backtracker([], options, nums, table)
SolveFunction ==
    /\ pc = "ready"
    /\ \E o \in {<<>>, words, ext_words}, n \in Puzzles :
          /\ options' = o
          /\ nums' = n
          /\ frames' = <<[selected |-> <<>>, options |-> o, i |-> 1,
                          solutions |-> <<>>]>>
    /\ pc' = "solving"
    /\ UNCHANGED <<words, ext_words, table, ret, last_ext>>
    /\ UNCHANGED <<colourVars, codecVars>>

\* the accepting branch: every option completes the stack
BtAccept ==
    /\ pc = "solving"
    /\ Accepting(Top)
    /\ Return(Some(accept_solutions(Top.selected, Top.options)))
    /\ UNCHANGED <<words, ext_words, table, options, nums, last_ext>>
    /\ UNCHANGED <<colourVars, codecVars>>

\* one iteration of "for i, word in enumerate(options)" up to the recursive call
BtExtend ==
    /\ pc = "solving"
    /\ ~Accepting(Top)
    /\ Top.i <= Len(Top.options)
    /\ LET stack == Append(Top.selected, Top.options[Top.i])
           e == extend_puzzle(stack, nums, table)
       IN  /\ frames' = Append(frames, [selected |-> e.prevwords,
                                        options |-> e.extwords, i |-> 1,
                                        solutions |-> <<>>])
           /\ nums' = e.nums
           /\ table' = e.table
           /\ last_ext' = [called |-> TRUE, prevwords |-> stack, nums |-> nums,
                           table |-> table, result |-> e.extwords,
                           prevwords_after |-> e.prevwords]
    /\ UNCHANGED <<pc, words, ext_words, options, ret>>
    /\ UNCHANGED <<colourVars, codecVars>>

\* the loop is over: "if solutions != []: return solutions", else fall off the end
BtReturn ==
    /\ pc = "solving"
    /\ ~Accepting(Top)
    /\ Top.i > Len(Top.options)
    /\ Return(IF Top.solutions # <<>> THEN Some(Top.solutions) ELSE None)
    /\ UNCHANGED <<words, ext_words, table, options, nums, last_ext>>
    /\ UNCHANGED <<colourVars, codecVars>>

\* a caller's own extend_puzzle(prevwords, nums, table) on the built table, with
\* any non-empty stack of known words and the colourings up to the row above it
\* (the call reads no later entry of nums)
ExtendPuzzle ==
    /\ pc = "ready"
    /\ \E n \in {q \in Puzzles : Len(q) >= 2} :
          \E stack \in [1..(Len(n) - 1) -> Range(ext_words)] :
              LET e == extend_puzzle(stack, n, table)
              IN  /\ nums' = e.nums
                  /\ table' = e.table
                  /\ last_ext' = [called |-> TRUE, prevwords |-> stack, nums |-> n,
                                  table |-> table, result |-> e.extwords,
                                  prevwords_after |-> e.prevwords]
    /\ pc' = "extended"
    /\ UNCHANGED <<words, ext_words, options, frames, ret>>
    /\ UNCHANGED <<colourVars, codecVars>>

Next == GetTable \/ SolveFunction \/ BtAccept \/ BtExtend \/ BtReturn

Spec == Init /\ [][Next]_vars

\* the table and single extend_puzzle calls on it
NextExtend == GetTable \/ ExtendPuzzle

SpecExtend == Init /\ [][NextExtend]_vars

----------------------------------------------------------------------------
(* wordle_colour applied to every pair of words over the letters *)

InitColour ==
    /\ pc = "colour"
    /\ guess \in Words
    /\ solution \in Words
    /\ col = <<>>
    /\ words = <<>> /\ ext_words = <<>> /\ table = EmptyTable
    /\ options = <<>> /\ nums = <<>> /\ frames = <<>>
    /\ ret = None /\ last_ext = NoCall
    /\ codec_in = <<>> /\ codec_mid = <<>> /\ codec_out = <<>>

WordleColour ==
    /\ pc = "colour"
    /\ col' = wordle_colour(guess, solution)
    /\ pc' = "coloured"
    /\ UNCHANGED <<guess, solution, solverVars, codecVars>>

NextColour == WordleColour

SpecColour == InitColour /\ [][NextColour]_vars

----------------------------------------------------------------------------
(* The codec applied there and back, from a colouring and from a number *)

InitCodec ==
    /\ pc = "codec"
    /\ codec_in \in ({"ternary"} \X Ternaries) \cup ({"num"} \X (0..(NumColourings - 1)))
    /\ codec_mid = <<>>
    /\ codec_out = <<>>
    /\ words = <<>> /\ ext_words = <<>> /\ table = EmptyTable
    /\ options = <<>> /\ nums = <<>> /\ frames = <<>>
    /\ ret = None /\ last_ext = NoCall
    /\ guess = <<>> /\ solution = <<>> /\ col = <<>>

Encode ==
    /\ pc = "codec"
    /\ codec_in[1] = "ternary"
    /\ codec_mid' = <<ternarytonum(codec_in[2])>>
    /\ pc' = "encoded"
    /\ UNCHANGED <<codec_in, codec_out, solverVars, colourVars>>

DecodeBack ==
    /\ pc = "encoded"
    /\ codec_out' = <<numtoternary(codec_mid[1])>>
    /\ pc' = "round"
    /\ UNCHANGED <<codec_in, codec_mid, solverVars, colourVars>>

Decode ==
    /\ pc = "codec"
    /\ codec_in[1] = "num"
    /\ codec_mid' = <<numtoternary(codec_in[2])>>
    /\ pc' = "decoded"
    /\ UNCHANGED <<codec_in, codec_out, solverVars, colourVars>>

EncodeBack ==
    /\ pc = "decoded"
    /\ codec_out' = <<ternarytonum(codec_mid[1])>>
    /\ pc' = "round"
    /\ UNCHANGED <<codec_in, codec_mid, solverVars, colourVars>>

NextCodec == Encode \/ DecodeBack \/ Decode \/ EncodeBack

SpecCodec == InitCodec /\ [][NextCodec]_vars

----------------------------------------------------------------------------
(* Declarative reading of the rules, independent of the loops above *)

AllGreen == NumColourings - 1

\* tile i (1 = leftmost, most significant) of the colouring number coln
Tile(coln, i) == (coln \div Pow(3, WordLen - i)) % 3

Positions == 1..WordLen

Count(S) == Cardinality(S)

\* rule 1: no letter on a grey tile of the new row is on a grey tile below
Rule1(word, stack, ns) ==
    \A i \in Positions :
        Tile(ns[Len(stack) + 1], i) = GREY =>
            ~\E r \in 1..Len(stack), j \in Positions :
                Tile(ns[r], j) = GREY /\ stack[r][j] = word[i]

\* rule 2: no letter on a yellow or grey tile repeats the letter below it
Rule2(word, stack, ns) ==
    \A i \in Positions :
        Tile(ns[Len(stack) + 1], i) # GREEN =>
            \A r \in 1..Len(stack) : stack[r][i] # word[i]

\* rule 3: the non-grey letters are a sub-multiset of the top row's non-grey letters
Rule3(word, stack, ns) ==
    \A l \in Range(word) :
        Count({i \in Positions : word[i] = l /\ Tile(ns[Len(stack) + 1], i) # GREY})
            <= Count({i \in Positions : stack[Len(stack)][i] = l
                                         /\ Tile(ns[Len(stack)], i) # GREY})

\* rule 3 read on sets of letters only
Rule3AsSets(word, stack, ns) ==
    \A i \in Positions :
        Tile(ns[Len(stack) + 1], i) # GREY =>
            \E j \in Positions : stack[Len(stack)][j] = word[i]
                                  /\ Tile(ns[Len(stack)], j) # GREY

Legal(word, stack, ns) ==
    Rule1(word, stack, ns) /\ Rule2(word, stack, ns) /\ Rule3(word, stack, ns)

\* the bucket of the next row's colouring under the bottom row, legal words only
LegalExtension(stack, ns, t) ==
    LET key == <<stack[1], ns[Len(stack) + 1]>>
        Test(w) == Legal(w, stack, ns)
    IN  IF key \in DOMAIN t THEN SelectSeq(t[key], Test) ELSE <<>>

Candidates == [1..Len(nums) -> Range(ext_words) \cup Range(options)]

\* stacks whose rows colour to their targets against row 0 and pass the rules
ColouredStacks ==
    {st \in Candidates :
        /\ st[1] \in Range(options)
        /\ \A r \in 2..Len(nums) :
              /\ st[r] \in Range(ext_words)
              /\ ternarytonum(wordle_colour(st[r], st[1])) = nums[r]
              /\ Legal(st[r], SubSeq(st, 1, r - 1), nums)}

\* stacks whose rows come from the table's buckets and pass the rules
TableStacks ==
    {st \in Candidates :
        /\ st[1] \in Range(options)
        /\ \A r \in 2..Len(nums) :
              /\ <<st[1], nums[r]>> \in DOMAIN table
              /\ st[r] \in Range(table[<<st[1], nums[r]>>])
              /\ Legal(st[r], SubSeq(st, 1, r - 1), nums)}

Returned == Range(ret.sols)

\* the places <<key, index>> of the table where guess g is stored under solution sol
Places(sol, g) ==
    {x \in UNION {{<<k, i>> : i \in 1..Len(table[k])} : k \in DOMAIN table} :
        x[1][1] = sol /\ table[x[1]][x[2]] = g}

----------------------------------------------------------------------------
(* Claims *)

\* C1: every stack solve_function returns has len(nums) rows, a bottom row
\* taken from options, and every row above colours to its target against the
\* bottom row.
C1_Soundness ==
    (pc = "done" /\ ~ret.none) =>
        \A k \in 1..Len(ret.sols) :
            LET st == ret.sols[k]
            IN  /\ Len(st) = Len(nums)
                /\ st[1] \in Range(options)
                /\ \A r \in 2..Len(st) :
                      ternarytonum(wordle_colour(st[r], st[1])) = nums[r]

C1_Witness ==
    /\ pc = "done"
    /\ ~ret.none
    /\ \E k \in 1..Len(ret.sols) :
          Len(ret.sols[k]) = 3 /\ nums[2] # nums[3]

\* C2 as stated: with options from the lexicon, every stack whose rows colour to
\* their targets against row 0 and pass rules 1-3 is returned, and the puzzle
\* [all green, all green] over the single word W returns exactly [W, W].
C2_Completeness_AsStated ==
    (pc = "done" /\ Range(words) \subseteq Range(ext_words)
                 /\ Range(options) \subseteq Range(words)) =>
        /\ ColouredStacks \subseteq Returned
        /\ (nums = <<AllGreen, AllGreen>> /\ Len(words) = 1 /\ ext_words = words
                /\ options = words)
              => ret.sols = <<<<words[1], words[1]>>>>

\* C2 amended: every such stack whose upper rows all differ from row 0 is
\* returned, and the puzzle [all green, all green] over the single word W
\* returns no stack.
C2_Completeness ==
    (pc = "done" /\ Range(words) \subseteq Range(ext_words)
                 /\ Range(options) \subseteq Range(words)) =>
        /\ {st \in ColouredStacks : \A r \in 2..Len(nums) : st[r] # st[1]}
              \subseteq Returned
        /\ (nums = <<AllGreen, AllGreen>> /\ Len(words) = 1 /\ ext_words = words
                /\ options = words)
              => ret.sols = <<>>

C2_Witness ==
    /\ pc = "done"
    /\ Range(words) \subseteq Range(ext_words)
    /\ options = words
    /\ Len(options) = 2
    /\ Len(nums) = 2
    /\ Cardinality(Returned) >= 3

\* C3: green exactly on equal letters; a non-green tile is yellow exactly when
\* fewer earlier non-green tiles of the guess carry its letter than the
\* solution has non-green occurrences of it; else grey.  A word against itself
\* is all green, and no letter is non-grey more often than the solution has it.
C3_TwoPassColouring ==
    pc = "coloured" =>
        /\ \A i \in Positions :
              col[i] = IF guess[i] = solution[i] THEN GREEN
                       ELSE IF Count({j \in 1..(i - 1) :
                                        guess[j] = guess[i] /\ guess[j] # solution[j]})
                                 < Count({j \in Positions :
                                        solution[j] = guess[i] /\ guess[j] # solution[j]})
                            THEN YELLOW
                            ELSE GREY
        /\ (guess = solution => \A i \in Positions : col[i] = GREEN)
        /\ \A l \in Letters :
              Count({i \in Positions : guess[i] = l /\ col[i] # GREY})
                  <= Count({j \in Positions : solution[j] = l})

C3_Witness ==
    /\ pc = "coloured"
    /\ \E i, j \in Positions :
          i < j /\ guess[i] = guess[j] /\ col[i] = YELLOW /\ col[j] = GREY

\* C4: when ext_words has no repeated word and contains the lexicon, every
\* guess different from a lexicon solution is stored exactly once under that
\* solution, in the bucket of its colouring.
C4_TableComplete ==
    (pc # "start" /\ NoRepeats(ext_words) /\ Range(words) \subseteq Range(ext_words)) =>
        \A sol \in Range(words), g \in Range(ext_words) :
            g # sol =>
                /\ Cardinality(Places(sol, g)) = 1
                /\ \A x \in Places(sol, g) :
                      x[1][2] = ternarytonum(wordle_colour(g, sol))

C4_Witness ==
    /\ pc = "ready"
    /\ NoRepeats(ext_words)
    /\ Range(words) \subseteq Range(ext_words)
    /\ \E k \in DOMAIN table : k[1] \in Range(words) /\ Len(table[k]) = 2

\* C5: every key of the table has its solution in the lexicon and every stored
\* word is in the extended lexicon.
C5_SolutionsFromLexicon ==
    pc # "start" =>
        \A k \in DOMAIN table :
            k[1] \in Range(words) /\ Range(table[k]) \subseteq Range(ext_words)

\* C6: in a returned stack no letter sits on a grey tile of two different rows.
C6_GreyExhaustion ==
    (pc = "done" /\ Len(nums) >= 2) =>
        \A k \in 1..Len(ret.sols) :
            \A i, j \in 1..Len(nums), p, q \in Positions :
                (i < j /\ Tile(nums[i], p) = GREY /\ Tile(nums[j], q) = GREY)
                    => ret.sols[k][i][p] # ret.sols[k][j][q]

C6_Witness ==
    /\ pc = "done"
    /\ Len(nums) >= 2
    /\ \E k \in 1..Len(ret.sols) :
          \E i, j \in 1..Len(nums), p, q, x \in Positions :
              /\ i < j /\ Tile(nums[i], p) = GREY /\ Tile(nums[j], q) = GREY
              /\ Tile(nums[j], x) # GREY /\ ret.sols[k][j][x] = ret.sols[k][i][p]

\* C7: when no complete stack exists, solve_function returns an empty list.
C7_ExhaustionIsEmptyList ==
    (pc = "done" /\ TableStacks = {}) => ret = Some(<<>>)

C8_CodecBijection ==
    /\ (pc = "round" /\ codec_in[1] = "ternary") => codec_out[1] = codec_in[2]
    /\ (pc = "round" /\ codec_in[1] = "num") => codec_out[1] = codec_in[2]
    /\ pc = "decoded" => Len(codec_mid[1]) = WordLen

C8_Witness ==
    /\ pc = "round"
    /\ codec_in[1] = "ternary"
    /\ codec_in[2][1] = GREY
    /\ codec_in[2][WordLen] # GREY

\* C10: extend_puzzle returns, in bucket order, the words of the bucket
\* (stack[0], nums[len(stack)]) that pass rules 1-3, and nothing when the key
\* is absent.
C10_ExtendIsLegalFilter ==
    last_ext.called =>
        last_ext.result
            = LegalExtension(last_ext.prevwords, last_ext.nums, last_ext.table)

C10_Witness ==
    /\ last_ext.called
    /\ LET key == <<last_ext.prevwords[1], last_ext.nums[Len(last_ext.prevwords) + 1]>>
       IN  /\ key \in DOMAIN last_ext.table
           /\ \E w \in Range(last_ext.table[key]) :
                 /\ Rule1(w, last_ext.prevwords, last_ext.nums)
                 /\ Rule2(w, last_ext.prevwords, last_ext.nums)
                 /\ Rule3AsSets(w, last_ext.prevwords, last_ext.nums)
                 /\ ~Rule3(w, last_ext.prevwords, last_ext.nums)

====
